---- MODULE Spec2Model ----
(***************************************************************************)
(* Model of the stock dashboard core: the SQLite-backed trade ledger and   *)
(* its per-symbol position summary (stock_dashboard/portfolio.py), the     *)
(* moving-average crossover backtest (stock_dashboard/backtesting.py) and  *)
(* the SMA / RSI indicators (stock_dashboard/indicators.py).               *)
(*                                                                         *)
(* Numbers.  The program computes with Python floats.  The model computes  *)
(* with exact rationals: a number is a pair <<n, d>> in lowest terms with  *)
(* d >= 1.  A pair with d = 0 is not a number: <<0, 0>> is the float NaN   *)
(* and <<1, 0>> is Python's None.                                          *)
(*                                                                         *)
(* Text.  A string is a sequence of one-character strings, so that         *)
(* str.strip() and str.upper() are computed, not assumed.                  *)
(***************************************************************************)
EXTENDS Integers, Sequences, FiniteSets, TLC

VARIABLES
    ledger,     \* rows of the trades table, in id (insertion) order
    ret,        \* outcome of the last PortfolioManager call
    pc,         \* position inside _summarise_symbol: "loop" or "done"
    net_qty,    \* _summarise_symbol local
    avg_cost,   \* _summarise_symbol local
    realized,   \* _summarise_symbol local
    row,        \* the row the loop processed last
    prev,       \* the three locals as they were before that row
    nrows,      \* number of rows processed so far
    summary,    \* the dict _summarise_symbol returns
    price_data, \* the Close series handed to the backtest / the indicators
    result,     \* outcome of the last backtest or indicator call
    last_summary, \* history: the last summary taken since the last add or clear
    pending     \* the get_portfolio_summary in progress: rows read, quotes so far

vars == <<ledger, ret, pc, net_qty, avg_cost, realized, row, prev, nrows,
          summary, price_data, result, last_summary, pending>>

ledgerVars == <<ledger, ret, last_summary, pending>>
foldVars == <<pc, net_qty, avg_cost, realized, row, prev, nrows, summary>>
seriesVars == <<price_data, result>>

-----------------------------------------------------------------------------
(* Bounds of the model.                                                    *)

MaxTrades == 2
MaxDate == 2
MaxTradeQty == 1
MaxTradePrice == 1
MaxTradeFee == 1
MaxQty == 2
MaxPrice == 2
MaxFee == 1
MaxRows == 3
MaxMarketPrice == 3
MaxBars == 5
MaxClose == 3
MaxWindow == 3
MaxPeriod == 3
MaxSameDay == 18
MaxOddTrades == 2

-----------------------------------------------------------------------------
(* Exact rational arithmetic standing in for float arithmetic.             *)

Abs(x) == IF x < 0 THEN -x ELSE x

RECURSIVE GCD(_, _)
GCD(a, b) == IF b = 0 THEN a ELSE GCD(b, a % b)

\* n/d in lowest terms with a positive denominator (d # 0).
Rat(n, d) ==
    LET g == GCD(Abs(n), Abs(d))
        s == IF d < 0 THEN -1 ELSE 1
    IN  <<(s * n) \div g, (s * d) \div g>>

Num(i) == <<i, 1>>
NaN == <<0, 0>>
None == <<1, 0>>
IsNum(x) == x[2] > 0
IsNaN(x) == x = NaN

\* Arithmetic with a NaN operand gives NaN.
RatAdd(x, y) ==
    IF IsNaN(x) \/ IsNaN(y) THEN NaN ELSE Rat(x[1] * y[2] + y[1] * x[2], x[2] * y[2])
RatSub(x, y) ==
    IF IsNaN(x) \/ IsNaN(y) THEN NaN ELSE Rat(x[1] * y[2] - y[1] * x[2], x[2] * y[2])
RatMul(x, y) ==
    IF IsNaN(x) \/ IsNaN(y) THEN NaN ELSE Rat(x[1] * y[1], x[2] * y[2])
RatDiv(x, y) == Rat(x[1] * y[2], x[2] * y[1])
RatLess(x, y) == x[1] * y[2] < y[1] * x[2]
Zero == Num(0)

-----------------------------------------------------------------------------
(* Text helpers: str.strip() and str.upper().                              *)

\* str.upper() on one ASCII character.
LowerCase ==
    <<"a", "b", "c", "d", "e", "f", "g", "h", "i", "j", "k", "l", "m",
      "n", "o", "p", "q", "r", "s", "t", "u", "v", "w", "x", "y", "z">>
UpperCase ==
    <<"A", "B", "C", "D", "E", "F", "G", "H", "I", "J", "K", "L", "M",
      "N", "O", "P", "Q", "R", "S", "T", "U", "V", "W", "X", "Y", "Z">>
UpperChar(c) ==
    IF \E i \in 1..Len(LowerCase) : LowerCase[i] = c
    THEN UpperCase[CHOOSE i \in 1..Len(LowerCase) : LowerCase[i] = c]
    ELSE c

Upper(s) == [i \in 1..Len(s) |-> UpperChar(s[i])]

\* The characters str.strip() removes: space, tab, newline, carriage return,
\* form feed, then (written raw) vertical tab, the separators 0x1c to 0x1f,
\* next line 0x85 and no-break space 0xa0.  The white space beyond U+00FF
\* cannot be written in a string here.
Whitespace ==
    {" ", "\t", "\n", "\r", "\f", "", "", "", "", "", "", " "}

RECURSIVE LStrip(_)
LStrip(s) == IF s # <<>> /\ Head(s) \in Whitespace THEN LStrip(Tail(s)) ELSE s

RECURSIVE RStrip(_)
RStrip(s) ==
    IF s # <<>> /\ s[Len(s)] \in Whitespace
    THEN RStrip(SubSeq(s, 1, Len(s) - 1))
    ELSE s

Strip(s) == RStrip(LStrip(s))

BUY == <<"B", "U", "Y">>
SELL == <<"S", "E", "L", "L">>

-----------------------------------------------------------------------------
(* Trade and PortfolioManager.add_trade / clear_trades / get_trades.       *)

normalized_symbol(trade) == Upper(Strip(trade.symbol))
normalized_side(trade) == Upper(Strip(trade.side))

\* The inputs add_trade is called with: valid and invalid ones.
RawSymbols == { <<" ">>, <<"m", "\t">>, <<"B">> }
RawSides == { <<"b", "u", "y", "\n">>, <<" ", "S", "E", "L", "L">>, <<"h", "o", "l", "d">> }
\* The calls made on add_trade: for every symbol a buy without fees on the
\* first date, and for one symbol every date, quantity and price from zero,
\* side and fee from a negative one.
TradeInputs ==
    [symbol : RawSymbols, trade_date : {1}, quantity : {1}, price : {1},
     side : {<<"b", "u", "y", "\n">>}, fees : {0}]
    \cup
    [symbol : {<<"B">>}, trade_date : 1..MaxDate, quantity : 0..MaxTradeQty,
     price : 0..MaxTradePrice, side : RawSides, fees : (0 - 1)..MaxTradeFee]

\* The exception add_trade raises for a trade, or "ok".
AddTradeOutcome(trade) ==
    IF normalized_side(trade) \notin {BUY, SELL}
    THEN "ValueError: Trade side must be either 'BUY' or 'SELL'."
    ELSE IF trade.quantity <= 0 THEN "ValueError: Quantity must be positive."
    ELSE IF trade.price <= 0 THEN "ValueError: Price must be positive."
    ELSE "ok"

\* The row the INSERT statement stores.
StoredRow(trade) ==
    [symbol |-> normalized_symbol(trade), trade_date |-> trade.trade_date,
     quantity |-> trade.quantity, price |-> trade.price,
     side |-> normalized_side(trade), fees |-> trade.fees]


\* A variant of the INSERT that overwrites the newest row (an upsert).
InsertRowOverwrites(rows, trade) ==
    IF rows = <<>> THEN <<StoredRow(trade)>>
    ELSE [rows EXCEPT ![Len(rows)] = StoredRow(trade)]

\* INSERT INTO trades: the table with the new row after the rows it had.
InsertRow(rows, trade) == Append(rows, StoredRow(trade))

\* DELETE FROM trades.
ClearedLedger == <<>>

\* The trade_date of every row, by position, and the positions in order.
Dates(rows) == [i \in 1..Len(rows) |-> rows[i].trade_date]
Identity(n) == [i \in 1..n |-> i]

Reorder(rows, p) == [i \in 1..Len(rows) |-> rows[p[i]]]

\* One pass of an insertion sort on a, a sequence of positions with keys v:
\* the place for position vi, found from pj down, is after every entry whose
\* key is not greater, so entries of equal key keep their order.
RECURSIVE Place(_, _, _, _)
Place(v, a, vi, pj) ==
    IF pj > 1 /\ v[vi] < v[a[pj - 1]] THEN Place(v, a, vi, pj - 1) ELSE pj

\* The insertion sort of a from its entry pi on (the entries before pi are
\* sorted already).
RECURSIVE InsertionSort(_, _, _)
InsertionSort(v, a, pi) ==
    IF pi > Len(a) THEN a
    ELSE LET pj == Place(v, a, a[pi], pi)
         IN  InsertionSort(v, SubSeq(a, 1, pj - 1) \o <<a[pi]>> \o SubSeq(a, pj, pi - 1)
                                 \o SubSeq(a, pi + 1, Len(a)), pi + 1)

\* "ORDER BY trade_date" with no second key: the rows by ascending date.
\* SQLite sorts the rows it scans with a merge sort, which leaves rows of
\* equal date in scan order, and the scan goes by id, the order of insertion.
StableOrder(rows) == InsertionSort(Dates(rows), Identity(Len(rows)), 2)

\* get_trades: the frame the query returns for a ledger, symbol and side
\* upper-cased again on the way out.
GetTrades(rows) ==
    LET p == StableOrder(rows)
    IN  [i \in 1..Len(rows) |->
            [rows[p[i]] EXCEPT !.symbol = Upper(@), !.side = Upper(@)]]

-----------------------------------------------------------------------------
(* PortfolioManager._summarise_symbol.                                     *)

\* The locals before the first row.
FoldInit == [net_qty |-> 0, avg_cost |-> Zero, realized |-> Zero]

\* BuyRow with a bug: a BUY that covers a short books the gain on the cover.
BuyRowBooksCover(st, r) ==
    LET total_cost ==
            RatAdd(RatAdd(RatMul(st.avg_cost, Num(st.net_qty)),
                          Num(r.price * r.quantity)), Num(r.fees))
        n == st.net_qty + r.quantity
        covered == IF r.quantity < 0 - st.net_qty THEN r.quantity ELSE 0 - st.net_qty
    IN  [net_qty |-> n,
         avg_cost |-> IF n # 0 THEN RatDiv(total_cost, Num(n)) ELSE Zero,
         realized |-> IF st.net_qty < 0
                      THEN RatAdd(st.realized,
                                  RatMul(RatSub(st.avg_cost, Num(r.price)), Num(covered)))
                      ELSE st.realized]

\* BUY branch of the loop body.
BuyRow(st, r) ==
    LET total_cost ==
            RatAdd(RatAdd(RatMul(st.avg_cost, Num(st.net_qty)),
                          Num(r.price * r.quantity)), Num(r.fees))
        n == st.net_qty + r.quantity
    IN  [net_qty |-> n,
         avg_cost |-> IF n # 0 THEN RatDiv(total_cost, Num(n)) ELSE Zero,
         realized |-> st.realized]

\* SELL branch while net_qty <= 0: open or extend a short.
SellShortRow(st, r) ==
    [net_qty |-> st.net_qty - r.quantity,
     avg_cost |-> Num(r.price),
     realized |-> RatSub(st.realized, Num(r.fees))]

\* SellLongRow with a bug: the cost basis is not reset when the long closes.
SellLongRowKeepsCost(st, r) ==
    LET sell_qty == IF r.quantity < st.net_qty THEN r.quantity ELSE st.net_qty
        gain == RatSub(RatMul(RatSub(Num(r.price), st.avg_cost), Num(sell_qty)),
                       Num(r.fees))
    IN  [net_qty |-> st.net_qty - sell_qty, avg_cost |-> st.avg_cost,
         realized |-> RatAdd(st.realized, gain)]

\* SellLongRow with a bug: the fees are not taken off the realized gain.
SellLongRowIgnoresFees(st, r) ==
    LET sell_qty == IF r.quantity < st.net_qty THEN r.quantity ELSE st.net_qty
        gain == RatMul(RatSub(Num(r.price), st.avg_cost), Num(sell_qty))
        n == st.net_qty - sell_qty
    IN  [net_qty |-> n, avg_cost |-> IF n = 0 THEN Zero ELSE st.avg_cost,
         realized |-> RatAdd(st.realized, gain)]

\* SELL branch while net_qty > 0.
SellLongRow(st, r) ==
    LET sell_qty == IF r.quantity < st.net_qty THEN r.quantity ELSE st.net_qty
        gain == RatSub(RatMul(RatSub(Num(r.price), st.avg_cost), Num(sell_qty)),
                       Num(r.fees))
        n == st.net_qty - sell_qty
    IN  IF n = 0
        THEN [net_qty |-> n, avg_cost |-> Zero,
              realized |-> RatAdd(st.realized, gain)]
        ELSE IF r.quantity > sell_qty
        THEN [net_qty |-> n - (r.quantity - sell_qty), avg_cost |-> Num(r.price),
              realized |-> RatAdd(st.realized, gain)]
        ELSE [net_qty |-> n, avg_cost |-> st.avg_cost,
              realized |-> RatAdd(st.realized, gain)]

\* One iteration of the loop over the rows.
SummariseRow(st, r) ==
    IF Upper(r.side) = BUY THEN BuyRow(st, r)
    ELSE IF st.net_qty <= 0 THEN SellShortRow(st, r)
    ELSE SellLongRow(st, r)

\* The loop over a frame already in processing order.
RECURSIVE FoldRows(_, _)
FoldRows(st, rows) ==
    IF rows = <<>> THEN st ELSE FoldRows(SummariseRow(st, Head(rows)), Tail(rows))

\* The dict built after the loop; market_price is None or a number.
SummaryDict(st, market_price) ==
    LET have == market_price # None
        market_value == IF have THEN RatMul(market_price, Num(st.net_qty)) ELSE None
        unrealized ==
            IF have
            THEN RatMul(RatSub(market_price, st.avg_cost), Num(st.net_qty))
            ELSE None
        total_pl == IF have THEN RatAdd(st.realized, unrealized) ELSE st.realized
    IN  [net_quantity |-> st.net_qty,
         average_cost |-> st.avg_cost,
         market_price |-> IF have THEN market_price ELSE NaN,
         market_value |-> IF market_value # None THEN market_value ELSE NaN,
         realized_pl |-> st.realized,
         unrealized_pl |-> IF unrealized # None THEN unrealized ELSE NaN,
         total_pl |-> total_pl]

\* DataFrame.sort_values with its default kind="quicksort" sorts the
\* positions of the frame by date with numpy's argsort, whose quicksort
\* kernel partitions a range of more than SMALL_QUICKSORT + 1 entries around
\* the median of its first, middle and last entry and sorts a shorter range
\* by insertion.
SMALL_QUICKSORT == 16

\* INTP_SWAP: the entries at i and j change places.
Swap(a, i, j) ==
    [k \in 1..Len(a) |-> IF k = i THEN a[j] ELSE IF k = j THEN a[i] ELSE a[k]]

\* The range with its first, middle and last entry put in key order.
MedianOfThree(v, a) ==
    LET pl == 1
        pr == Len(a)
        pm == 1 + (Len(a) - 1) \div 2
        a1 == IF v[a[pm]] < v[a[pl]] THEN Swap(a, pm, pl) ELSE a
        a2 == IF v[a1[pr]] < v[a1[pm]] THEN Swap(a1, pr, pm) ELSE a1
    IN  IF v[a2[pm]] < v[a2[pl]] THEN Swap(a2, pm, pl) ELSE a2

\* do ++pi while key < pivot; do --pj while pivot < key.
RECURSIVE ScanUp(_, _, _, _)
ScanUp(v, a, vp, pi) ==
    IF v[a[pi + 1]] < vp THEN ScanUp(v, a, vp, pi + 1) ELSE pi + 1
RECURSIVE ScanDown(_, _, _, _)
ScanDown(v, a, vp, pj) ==
    IF vp < v[a[pj - 1]] THEN ScanDown(v, a, vp, pj - 1) ELSE pj - 1

\* The partition loop: the two scans meet, swapping the entries they stop
\* at (an entry equal to the pivot stops either scan).
RECURSIVE PartitionLoop(_, _, _, _, _)
PartitionLoop(v, a, vp, pi, pj) ==
    LET i == ScanUp(v, a, vp, pi)
        j == ScanDown(v, a, vp, pj)
    IN  IF i >= j THEN [a |-> a, pi |-> i]
        ELSE PartitionLoop(v, Swap(a, i, j), vp, i, j)

\* numpy's argsort, kind="quicksort", of the positions a by the keys v.  A
\* range is split until it is short; the kernel's depth limit, twice the
\* binary logarithm of the length, is not reached by a range that one split
\* makes short.
RECURSIVE ArgSort(_, _)
ArgSort(v, a) ==
    IF Len(a) - 1 > SMALL_QUICKSORT
    THEN LET pr == Len(a)
             pm == 1 + (Len(a) - 1) \div 2
             m == MedianOfThree(v, a)
             vp == v[m[pm]]
             part == PartitionLoop(v, Swap(m, pm, pr - 1), vp, 1, pr - 1)
             q == Swap(part.a, part.pi, pr - 1)
         IN  ArgSort(v, SubSeq(q, 1, part.pi - 1)) \o <<q[part.pi]>>
                 \o ArgSort(v, SubSeq(q, part.pi + 1, pr))
    ELSE InsertionSort(v, a, 2)

\* The frame trades.sort_values("trade_date") returns.
SortValues(frame) == Reorder(frame, ArgSort(Dates(frame), Identity(Len(frame))))

\* _summarise_symbol: the sort, then the loop, then the dict.
SummariseSymbol(trades, market_price) ==
    SummaryDict(FoldRows(FoldInit, SortValues(trades)), market_price)


-----------------------------------------------------------------------------
(* PortfolioManager.get_portfolio_summary and data.fetch_latest_price.     *)

NormSymbols == { Upper(Strip(x)) : x \in RawSymbols }

\* trades["symbol"].unique(): the symbols in order of first appearance.
RECURSIVE Unique(_, _)
Unique(frame, seen) ==
    IF frame = <<>> THEN <<>>
    ELSE IF Head(frame).symbol \in seen THEN Unique(Tail(frame), seen)
    ELSE <<Head(frame).symbol>> \o Unique(Tail(frame), seen \cup {Head(frame).symbol})

\* fetch_latest_price: None for a blank symbol, else what the download gives
\* (quotes[symbol]: None when it fails or is empty, else the last close,
\* which is NaN for a bar without a close).
fetch_latest_price(symbol, quotes) ==
    IF Upper(Strip(symbol)) = <<>> THEN None ELSE quotes[symbol]

\* A variant of the missing list that asks a quote for every symbol.
MissingEverySymbol(symbols, latest_prices) ==
    { symbols[i] : i \in 1..Len(symbols) }

\* missing: the symbols of the frame that have no supplied price.
Missing(symbols, latest_prices) ==
    { x \in { symbols[i] : i \in 1..Len(symbols) } : latest_prices[x] = None }

\* _latest_prices: what fetch_latest_price gave for each symbol it was called
\* on (None stands for "not called" on the others).
LatestPrices(missing, quotes) ==
    [x \in NormSymbols |-> IF x \in missing THEN fetch_latest_price(x, quotes) ELSE None]

\* price_lookup after the update with the fetched prices of the missing symbols.
PriceLookup(symbols, latest_prices, quotes) ==
    LET missing == Missing(symbols, latest_prices)
        fetched == LatestPrices(missing, quotes)
    IN  [x \in NormSymbols |-> IF x \in missing THEN fetched[x] ELSE latest_prices[x]]

\* The rows of the summary frame: trades is the frame get_trades returned.
PortfolioSummary(trades, latest_prices, quotes) ==
    LET symbols == Unique(trades, {})
        price_lookup == PriceLookup(symbols, latest_prices, quotes)
        own(x) == SelectSeq(trades, LAMBDA r : r.symbol = x)
    IN  [i \in 1..Len(symbols) |->
            [symbol |-> symbols[i],
             metrics |-> SummariseSymbol(own(symbols[i]),
                                         price_lookup[symbols[i]])]]

\* latest_prices as the dashboard passes it: no price, or the one ticker's
\* last close, which is NaN for a bar without a close (the ticker is never
\* blank).
SuppliedPrices ==
    { [x \in NormSymbols |-> IF x = y THEN v ELSE None] :
        y \in NormSymbols \ {<<>>}, v \in {None, NaN, Num(1)} }
\* What one quote download gives: nothing, a last bar without a close, or a
\* last close.
Quotes == {None, NaN, Num(MaxMarketPrice)}

\* The trades another session stores while a summary waits for its quotes.
ConcurrentTrades ==
    [symbol : {<<"B">>}, trade_date : {MaxDate}, quantity : {1}, price : {1},
     side : {<<"b", "u", "y", "\n">>}, fees : {0}]

-----------------------------------------------------------------------------
(* The ledger: calls on one PortfolioManager, one at a time; its summary   *)
(* reads the table, then downloads a quote per missing symbol, then folds, *)
(* and while it waits for a download another PortfolioManager on the same  *)
(* database file may add or clear trades.                                  *)

NoRow == [quantity |-> 0, price |-> 0, side |-> <<>>, fees |-> 0]
NoSummary == SummaryDict(FoldInit, None)
NoPrices == [x \in NormSymbols |-> None]
NoCall == [op |-> "new", out |-> "ok", arg |-> NoPrices, fetched |-> {},
           quotes |-> NoPrices, value |-> <<>>]

\* No summary taken yet; again tells whether the summary repeats the one
\* before it (same supplied prices, same quotes, no add or clear between).
NoSummaryYet == [call |-> NoCall, again |-> FALSE]

\* No get_portfolio_summary in progress.
NoPending ==
    [pc |-> "idle", trades |-> <<>>, arg |-> NoPrices, todo |-> <<>>,
     fetched |-> {}, quotes |-> NoPrices, fresh |-> TRUE]

FoldIdle ==
    /\ pc = "idle"
    /\ net_qty = 0
    /\ avg_cost = Zero
    /\ realized = Zero
    /\ row = NoRow
    /\ prev = FoldInit
    /\ nrows = 0
    /\ summary = NoSummary

\* The statistics of a call that returned none.
NoStatistics ==
    [total_trades |-> 0, strategy_return_pct |-> NaN, market_return_pct |-> NaN,
     max_drawdown_pct |-> NaN]

NoResult ==
    [op |-> "none", out |-> "ok", close |-> <<>>, args |-> <<>>, sma_calls |-> 0,
     frame |-> <<>>, statistics |-> NoStatistics]

SeriesIdle ==
    /\ price_data = [column |-> "Close", values |-> <<>>]
    /\ result = NoResult

Init ==
    /\ ledger = <<>>
    /\ ret = NoCall
    /\ last_summary = NoSummaryYet
    /\ pending = NoPending
    /\ FoldIdle
    /\ SeriesIdle

AddTrade(trade) ==
    /\ pending.pc = "idle"
    /\ AddTradeOutcome(trade) = "ok" => Len(ledger) < MaxTrades
    /\ ledger' = IF AddTradeOutcome(trade) = "ok"
                 THEN InsertRow(ledger, trade)
                 ELSE ledger
    /\ ret' = [NoCall EXCEPT !.op = "add_trade", !.out = AddTradeOutcome(trade)]
    /\ last_summary' = NoSummaryYet
    /\ UNCHANGED <<pending, foldVars, seriesVars>>

ClearTrades ==
    /\ pending.pc = "idle"
    /\ ledger' = ClearedLedger
    /\ ret' = [NoCall EXCEPT !.op = "clear_trades"]
    /\ last_summary' = NoSummaryYet
    /\ UNCHANGED <<pending, foldVars, seriesVars>>

GetTradesCall ==
    /\ pending.pc = "idle"
    /\ ret' = [NoCall EXCEPT !.op = "get_trades",
                             !.value = GetTrades(ledger)]
    /\ UNCHANGED <<ledger, last_summary, pending, foldVars, seriesVars>>

\* get_portfolio_summary up to its first download: the table is read and the
\* missing list is built.
SummaryRead(latest_prices) ==
    /\ pending.pc = "idle"
    /\ LET trades == GetTrades(ledger)
           symbols == Unique(trades, {})
       IN  pending' = [NoPending EXCEPT
                       !.pc = "fetching",
                       !.trades = trades,
                       !.arg = latest_prices,
                       !.todo = SelectSeq(symbols,
                                    LAMBDA x : x \in Missing(symbols, latest_prices))]
    /\ ret' = [NoCall EXCEPT !.op = "get_portfolio_summary", !.out = "running"]
    /\ UNCHANGED <<ledger, last_summary, foldVars, seriesVars>>

\* _latest_prices, one symbol: fetch_latest_price returns what the download
\* gave.
SummaryFetch(quote) ==
    /\ pending.pc = "fetching"
    /\ pending.todo # <<>>
    /\ pending' = [pending EXCEPT
                   !.todo = Tail(@),
                   !.fetched = @ \cup {Head(pending.todo)},
                   !.quotes[Head(pending.todo)] =
                       fetch_latest_price(Head(pending.todo),
                                          [x \in NormSymbols |-> quote])]
    /\ UNCHANGED <<ledger, ret, last_summary, foldVars, seriesVars>>

\* The rest of get_portfolio_summary: the rows read earlier are folded with
\* the prices found and the frame is returned.
SummaryReturn ==
    /\ pending.pc = "fetching"
    /\ pending.todo = <<>>
    /\ ret' = [op |-> "get_portfolio_summary", out |-> "ok",
               arg |-> pending.arg,
               fetched |-> pending.fetched,
               quotes |-> pending.quotes,
               value |-> PortfolioSummary(pending.trades, pending.arg,
                                          pending.quotes)]
    /\ last_summary' =
          IF pending.fresh
          THEN [call |-> ret',
                again |-> /\ last_summary.call.op = "get_portfolio_summary"
                          /\ last_summary.call.arg = ret'.arg
                          /\ last_summary.call.quotes = ret'.quotes]
          ELSE NoSummaryYet
    /\ pending' = NoPending
    /\ UNCHANGED <<ledger, foldVars, seriesVars>>

\* add_trade of another PortfolioManager on the same file, during the wait.
ConcurrentAddTrade(trade) ==
    /\ pending.pc = "fetching"
    /\ AddTradeOutcome(trade) = "ok"
    /\ Len(ledger) < MaxTrades
    /\ ledger' = InsertRow(ledger, trade)
    /\ pending' = [pending EXCEPT !.fresh = FALSE]
    /\ last_summary' = NoSummaryYet
    /\ UNCHANGED <<ret, foldVars, seriesVars>>

\* clear_trades of another PortfolioManager on the same file, during the wait.
ConcurrentClearTrades ==
    /\ pending.pc = "fetching"
    /\ ledger' = ClearedLedger
    /\ pending' = [pending EXCEPT !.fresh = FALSE]
    /\ last_summary' = NoSummaryYet
    /\ UNCHANGED <<ret, foldVars, seriesVars>>

Next ==
    \/ \E trade \in TradeInputs : AddTrade(trade)
    \/ ClearTrades
    \/ GetTradesCall
    \/ \E latest_prices \in SuppliedPrices : SummaryRead(latest_prices)
    \/ \E quote \in Quotes : SummaryFetch(quote)
    \/ SummaryReturn
    \/ \E trade \in ConcurrentTrades : ConcurrentAddTrade(trade)
    \/ ConcurrentClearTrades

Spec == Init /\ [][Next]_vars

-----------------------------------------------------------------------------
(* A busy day: one session adds trades of one symbol on one date, most of  *)
(* them the same plain buy, and takes the summary with no price supplied.  *)

SameDayInputs ==
    [symbol : {<<"B">>}, trade_date : {1}, quantity : {1}, price : {1},
     side : {<<"b", "u", "y", "\n">>, <<" ", "S", "E", "L", "L">>},
     fees : 0..MaxTradeFee]

PlainBuy ==
    [symbol |-> <<"B">>, trade_date |-> 1, quantity |-> 1, price |-> 1,
     side |-> BUY, fees |-> 0]

\* The number of rows that are not the plain buy.
OddTrades(rows) == Len(SelectSeq(rows, LAMBDA r : r # PlainBuy))

\* add_trade on the busy day (every trade of SameDayInputs is stored).
AddSameDayTrade(trade) ==
    /\ pending.pc = "idle"
    /\ Len(ledger) < MaxSameDay
    /\ OddTrades(InsertRow(ledger, trade)) <= MaxOddTrades
    /\ ledger' = IF AddTradeOutcome(trade) = "ok"
                 THEN InsertRow(ledger, trade)
                 ELSE ledger
    /\ ret' = [NoCall EXCEPT !.op = "add_trade", !.out = AddTradeOutcome(trade)]
    /\ last_summary' = NoSummaryYet
    /\ UNCHANGED <<pending, foldVars, seriesVars>>

NextSameDay ==
    \/ \E trade \in SameDayInputs : AddSameDayTrade(trade)
    \/ SummaryRead(NoPrices)
    \/ SummaryFetch(Num(MaxMarketPrice))
    \/ SummaryReturn

SpecSameDay == Init /\ [][NextSameDay]_vars

-----------------------------------------------------------------------------
(* The loop of _summarise_symbol, one row at a time, over the rows of one  *)
(* symbol as add_trade stores them under the data model (quantity > 0,     *)
(* price > 0, fees >= 0), in processing order.                             *)

Rows ==
    [quantity : 1..MaxQty, price : 1..MaxPrice, side : {BUY, SELL}, fees : 0..MaxFee]
MarketPrices == {None, NaN} \cup { Num(i) : i \in 1..MaxMarketPrice }

Locals == [net_qty |-> net_qty, avg_cost |-> avg_cost, realized |-> realized]

InitFold ==
    /\ ledger = <<>>
    /\ ret = NoCall
    /\ last_summary = NoSummaryYet
    /\ pending = NoPending
    /\ pc = "loop"
    /\ net_qty = 0
    /\ avg_cost = Zero
    /\ realized = Zero
    /\ row = NoRow
    /\ prev = FoldInit
    /\ nrows = 0
    /\ summary = NoSummary
    /\ SeriesIdle

RowStep(r) ==
    /\ pc = "loop"
    /\ nrows < MaxRows
    /\ prev' = Locals
    /\ row' = r
    /\ nrows' = nrows + 1
    /\ net_qty' = SummariseRow(Locals, r).net_qty
    /\ avg_cost' = SummariseRow(Locals, r).avg_cost
    /\ realized' = SummariseRow(Locals, r).realized
    /\ UNCHANGED <<pc, summary, ledgerVars, seriesVars>>

Finish(market_price) ==
    /\ pc = "loop"
    /\ pc' = "done"
    /\ summary' = SummaryDict(Locals, market_price)
    /\ UNCHANGED <<net_qty, avg_cost, realized, row, prev, nrows, ledgerVars, seriesVars>>

NextFold ==
    \/ \E r \in Rows : RowStep(r)
    \/ \E market_price \in MarketPrices : Finish(market_price)

SpecFold == InitFold /\ [][NextFold]_vars


-----------------------------------------------------------------------------
(* Claims about the position summary (SpecFold) and the ledger (Spec).     *)

Acted == nrows > 0
IsBuy == row.side = BUY
IsSell == row.side = SELL

\* C1: a SELL of quantity q at price p arriving while net_qty = n > 0 with
\* q > n leaves net_quantity = -(q - n) and average_cost = p.
C1_OversellFlipsShort ==
    (Acted /\ IsSell /\ prev.net_qty > 0 /\ row.quantity > prev.net_qty)
        => /\ net_qty = 0 - (row.quantity - prev.net_qty)
           /\ avg_cost = Num(row.price)

\* C2: with no market price (market_price is None) the summary reports
\* unrealized_pl, market_value and total_pl all as NaN, never as a number.
C2_NoPriceAllUnknown ==
    (pc = "done" /\ IsNaN(summary.market_price))
        => /\ IsNaN(summary.unrealized_pl)
           /\ IsNaN(summary.market_value)
           /\ IsNaN(summary.total_pl)

\* The rows of symbol x in the ledger, by ascending trade_date with rows of
\* equal date in insertion order.
InsertionOrdered(x) ==
    LET own == SelectSeq(ledger, LAMBDA r : r.symbol = x)
    IN  Reorder(own, StableOrder(own))

\* The ledger holds only trades the data model allows.
ValidLedger ==
    \A i \in 1..Len(ledger) :
        ledger[i].symbol # <<>> /\ ledger[i].quantity > 0 /\ ledger[i].price > 0
        /\ ledger[i].side \in {BUY, SELL} /\ ledger[i].fees >= 0

\* C3: the per-symbol summary is the fold over the symbol's trades taken in
\* ascending trade_date order with equal dates in insertion order (stated
\* for ledgers of trades the data model allows, and for a summary that no
\* add or clear has followed since it read the ledger).
C3_SummaryFollowsInsertionOrder ==
    (ret.op = "get_portfolio_summary" /\ last_summary.call = ret /\ ValidLedger) =>
        \A i \in 1..Len(ret.value) :
            LET st == FoldRows(FoldInit, InsertionOrdered(ret.value[i].symbol))
                m == ret.value[i].metrics
            IN  /\ m.net_quantity = st.net_qty
                /\ m.average_cost = st.avg_cost
                /\ m.realized_pl = st.realized

\* C4: a BUY (also one covering a short) leaves realized_pl unchanged, and a
\* SELL arriving while net_qty <= 0 changes it by the fees only; so its
\* gain/loss component changes only on a SELL that reduces an open long.
C4_RealizedOnlyOnLongSell ==
    Acted =>
        /\ IsBuy => realized = prev.realized
        /\ (IsSell /\ prev.net_qty <= 0)
              => realized = RatSub(prev.realized, Num(row.fees))

\* A BUY has covered a short while realized_pl stood at a non-zero value.
C4_Witness ==
    Acted /\ IsBuy /\ prev.net_qty < 0 /\ net_qty >= 0 /\ prev.realized # Zero

\* C5: after every prefix of the trades, net_quantity = 0 implies
\* average_cost = 0, in the loop and in the dict returned.
C5_FlatMeansZeroCost ==
    /\ net_qty = 0 => avg_cost = Zero
    /\ summary.net_quantity = 0 => summary.average_cost = Zero

\* A BUY has covered exactly a short whose cost basis was not 0.
C5_Witness ==
    Acted /\ IsBuy /\ prev.net_qty < 0 /\ prev.avg_cost # Zero /\ net_qty = 0

\* C6: every trade held in the ledger has a non-empty upper-case symbol,
\* quantity > 0, price > 0, side BUY or SELL and fees >= 0; a call violating
\* one of these is rejected.
C6_LedgerRowsValid ==
    \A i \in 1..Len(ledger) :
        /\ ledger[i].symbol # <<>>
        /\ ledger[i].symbol = Upper(ledger[i].symbol)
        /\ ledger[i].quantity > 0
        /\ ledger[i].price > 0
        /\ ledger[i].side \in {BUY, SELL}
        /\ ledger[i].fees >= 0


SummaryCall == "get_portfolio_summary"

\* The steps of the session's own calls, told by what they leave behind.
OwnCall(op) == pending.pc = "idle" /\ pending'.pc = "idle" /\ ret'.op = op
Returns == pending.pc = "fetching" /\ pending'.pc = "idle"
SummaryStep ==
    \/ pending.pc = "idle" /\ pending'.pc = "fetching"
    \/ pending'.todo # pending.todo
    \/ Returns
Appended == Len(ledger') = Len(ledger) + 1 /\ SubSeq(ledger', 1, Len(ledger)) = ledger

\* What every call does to the ledger: a successful add_trade appends one row
\* after the rows there were, a rejected one changes nothing, clear_trades
\* removes every row, the two readers change nothing at any of their steps,
\* and the ledger changes in no other way, whichever session makes the call.
LedgerFrame ==
    /\ (OwnCall("add_trade") /\ ret'.out = "ok") => Appended
    /\ (OwnCall("add_trade") /\ ret'.out # "ok") => ledger' = ledger
    /\ OwnCall("clear_trades") => ledger' = <<>>
    /\ OwnCall("get_trades") => ledger' = ledger
    /\ SummaryStep => ledger' = ledger
    /\ ledger' # ledger => (Appended \/ ledger' = <<>>)

\* C11 as stated: across any interleaving of the four calls the ledger changes
\* only by a successful add_trade appending one trade (existing trades
\* unmodified) or by clear_trades removing every trade, the readers never
\* change it, and two summaries taken with the same supplied prices and no
\* add or clear between them are identical.
C11_SameSuppliedPricesSameSummary ==
    [][ /\ LedgerFrame
        /\ (Returns /\ pending.fresh /\ last_summary.call.op = SummaryCall
              /\ ret'.arg = last_summary.call.arg)
              => ret'.value = last_summary.call.value ]_vars

\* C11 amended: the same, the two summaries being identical when the quote
\* fetch also gave the same result for every symbol it was asked (no add or
\* clear, of any session, having run since the first summary read the ledger).
C11_SamePricesAndQuotesSameSummary ==
    [][ /\ LedgerFrame
        /\ (Returns /\ pending.fresh /\ last_summary.call.op = SummaryCall
              /\ ret'.arg = last_summary.call.arg
              /\ ret'.quotes = last_summary.call.quotes)
              => ret'.value = last_summary.call.value ]_vars

\* A second trade was appended and a summary that asked a quote and got one
\* has been taken twice with a get_trades in between.
C11_Witness ==
    /\ Len(ledger) = MaxTrades
    /\ ret.op = "get_trades"
    /\ last_summary.again
    /\ \E x \in last_summary.call.fetched : IsNum(last_summary.call.quotes[x])

\* The summary of the rows the call read, had the quote fetch given quotes.
SummaryHad(quotes) == PortfolioSummary(pending.trades, pending.arg, quotes)

\* C12: get_portfolio_summary returns exactly one row per distinct symbol of
\* the ledger (as the call read it); the quote fetch is invoked only for the
\* symbols that have no supplied price; and when it gives nothing for a symbol
\* the summary still has a row for every symbol, that symbol's market_price
\* being NaN and the rows of the other symbols being what they would be had
\* the fetch succeeded.
C12_SummarySurvivesFailedFetch ==
    [][ Returns =>
        LET symbols == { pending.trades[i].symbol : i \in 1..Len(pending.trades) }
            value == ret'.value
            rows == 1..Len(value)
        IN  /\ pending.fresh =>
                  symbols = { Upper(ledger[i].symbol) : i \in 1..Len(ledger) }
            /\ Len(value) = Cardinality(symbols)
            /\ { value[i].symbol : i \in rows } = symbols
            /\ ret'.fetched = { x \in symbols : pending.arg[x] = None }
            /\ \A i \in rows :
                  (/\ value[i].symbol \in ret'.fetched
                   /\ ret'.quotes[value[i].symbol] = None)
                  => /\ IsNaN(value[i].metrics.market_price)
                     /\ \A j \in rows \ {i} :
                           value[j] =
                              SummaryHad([ret'.quotes EXCEPT
                                  ![value[i].symbol] = Num(MaxMarketPrice)])[j]
      ]_vars

\* A summary of two symbols: the fetch failed for one that is not blank, the
\* other had a supplied price and was not fetched.
C12_Witness ==
    /\ ret.op = SummaryCall /\ ret.out = "ok"
    /\ Len(ret.value) = 2
    /\ \E x \in ret.fetched : x # <<>> /\ ret.quotes[x] = None
    /\ \E i \in 1..Len(ret.value) :
          /\ ret.value[i].symbol \notin ret.fetched
          /\ ret.value[i].metrics.market_price = ret.arg[ret.value[i].symbol]


\* C14: a SELL of quantity q at price p with fees f arriving while
\* net_qty = n > 0 with q < n leaves net_quantity = n - q, average_cost
\* unchanged and realized_pl increased by exactly (p - average_cost) x q - f.
C14_PartialSell ==
    (Acted /\ IsSell /\ prev.net_qty > 0 /\ row.quantity < prev.net_qty)
        => /\ net_qty = prev.net_qty - row.quantity
           /\ avg_cost = prev.avg_cost
           /\ realized =
                 RatAdd(prev.realized,
                        RatSub(RatMul(RatSub(Num(row.price), prev.avg_cost),
                                      Num(row.quantity)),
                               Num(row.fees)))

\* A partial SELL with fees, at a price above a cost basis that is not a
\* whole number, has acted.
C14_Witness ==
    /\ Acted /\ IsSell /\ prev.net_qty > 0 /\ row.quantity < prev.net_qty
    /\ row.fees > 0
    /\ prev.avg_cost[2] > 1
    /\ RatLess(prev.avg_cost, Num(row.price))
    /\ RatLess(prev.realized, realized)

\* C16: after every prefix of valid trades (quantity > 0, price > 0,
\* fees >= 0), also after a BUY that covers a short in part or in full or
\* carries it long, average_cost is never negative.
C16_CostNeverNegative ==
    /\ ~RatLess(avg_cost, Zero)
    /\ ~RatLess(summary.average_cost, Zero)

-----------------------------------------------------------------------------
(* indicators.calculate_sma and indicators.calculate_rsi.                  *)

RECURSIVE SumRange(_, _, _)
SumRange(close, lo, hi) ==
    IF lo > hi THEN 0 ELSE close[hi] + SumRange(close, lo, hi - 1)

\* calculate_sma with a bug: partial windows are averaged (min_periods=1).
calculate_smaPartial(close, window) ==
    [t \in 1..Len(close) |->
        IF t < window THEN Rat(SumRange(close, 1, t), t)
        ELSE Rat(SumRange(close, t - window + 1, t), window)]

\* close.rolling(window, min_periods=window).mean(): undefined until window
\* values are in the window.
calculate_sma(close, window) ==
    [t \in 1..Len(close) |->
        IF t < window THEN NaN
        ELSE Rat(SumRange(close, t - window + 1, t), window)]

\* close.diff(): the first value has no predecessor.
Diff(close) ==
    [t \in 1..Len(close) |-> IF t = 1 THEN NaN ELSE Num(close[t] - close[t - 1])]

\* delta.clip(lower=0) and -delta.clip(upper=0); NaN stays NaN.
Gain(delta) ==
    [t \in 1..Len(delta) |->
        IF IsNaN(delta[t]) THEN NaN
        ELSE IF RatLess(delta[t], Zero) THEN Zero ELSE delta[t]]
Loss(delta) ==
    [t \in 1..Len(delta) |->
        IF IsNaN(delta[t]) THEN NaN
        ELSE IF RatLess(Zero, delta[t]) THEN Zero ELSE RatSub(Zero, delta[t])]

\* The running state of x.ewm(alpha=1/period, adjust=False) after index t
\* (ignore_na=False): the average is NaN until the first observation, which
\* seeds it; from then on the weight of the old average decays by 1 - alpha
\* at every index, also at a NaN, and is back at 1 after an observation.
RECURSIVE EwmState(_, _, _)
EwmState(x, period, t) ==
    IF t = 0 THEN [weighted |-> NaN, old_wt |-> Num(1)]
    ELSE LET before == EwmState(x, period, t - 1)
             alpha == Rat(1, period)
             old_wt == RatMul(before.old_wt, RatSub(Num(1), alpha))
         IN  IF IsNaN(before.weighted)
             THEN [weighted |-> x[t], old_wt |-> Num(1)]
             ELSE IF IsNaN(x[t])
             THEN [weighted |-> before.weighted, old_wt |-> old_wt]
             ELSE [weighted |->
                       RatDiv(RatAdd(RatMul(old_wt, before.weighted),
                                     RatMul(alpha, x[t])),
                              RatAdd(old_wt, alpha)),
                   old_wt |-> Num(1)]

\* x.ewm(alpha=1/period, adjust=False).mean() at index t.
Ewm(x, period, t) == EwmState(x, period, t).weighted

\* avg_gain / avg_loss.replace(0, np.nan), then 100 - 100 / (1 + rs).
RsiValue(avg_gain, avg_loss) ==
    LET denominator == IF avg_loss = Zero THEN NaN ELSE avg_loss
        rs == IF IsNaN(avg_gain) \/ IsNaN(denominator) THEN NaN
              ELSE RatDiv(avg_gain, denominator)
    IN  IF IsNaN(rs) THEN NaN
        ELSE RatSub(Num(100), RatDiv(Num(100), RatAdd(Num(1), rs)))

\* calculate_rsi: one row per bar with the two smoothed averages and the RSI.
calculate_rsi(close, period) ==
    [t \in 1..Len(close) |->
        LET avg_gain == Ewm(Gain(Diff(close)), period, t)
            avg_loss == Ewm(Loss(Diff(close)), period, t)
        IN  [avg_gain |-> avg_gain, avg_loss |-> avg_loss,
             rsi |-> RsiValue(avg_gain, avg_loss)]]

-----------------------------------------------------------------------------
(* backtesting.ma_crossover_backtest.                                      *)

ErrNoClose == "ValueError: price_data must contain a 'Close' column"
ErrWindows == "ValueError: fast_window should be smaller than slow_window"
ErrNotEnough == "ValueError: Not enough data to compute the moving averages."

\* The frame with Close, FastMA and SlowMA after dropna().
MovingAverages(close, fast_window, slow_window) ==
    LET fastMA == calculate_sma(close, fast_window)
        slowMA == calculate_sma(close, slow_window)
        all == [t \in 1..Len(close) |->
                  [Close |-> close[t], FastMA |-> fastMA[t], SlowMA |-> slowMA[t]]]
    IN  SelectSeq(all, LAMBDA r : IsNum(r.FastMA) /\ IsNum(r.SlowMA))

\* frame["Signal"] = 0, then 1 where FastMA > SlowMA.
Signal(r) == IF RatLess(r.SlowMA, r.FastMA) THEN 1 ELSE 0

\* Position with a bug: the signal is used without the one-bar lag.
PositionNoLag(frame, t) == Signal(frame[t])

\* frame["Signal"].shift(1).fillna(0) at row t.
Position(frame, t) == IF t = 1 THEN 0 ELSE Signal(frame[t - 1])

\* frame["Close"].pct_change().fillna(0) at row t.
MarketReturn(frame, t) ==
    IF t = 1 THEN Zero
    ELSE RatSub(Rat(frame[t].Close, frame[t - 1].Close), Num(1))

\* Market Return * Position at row t.
StrategyReturn(frame, t) == RatMul(MarketReturn(frame, t), Num(Position(frame, t)))

\* (1 + returns).cumprod() at row t.
RECURSIVE CumProd(_, _)
CumProd(returns, t) ==
    IF t = 0 THEN Num(1) ELSE RatMul(CumProd(returns, t - 1), RatAdd(Num(1), returns[t]))

\* The columns added to the frame after dropna().
EquityCurve(frame) ==
    LET market == [t \in 1..Len(frame) |-> MarketReturn(frame, t)]
        strategy == [t \in 1..Len(frame) |-> StrategyReturn(frame, t)]
    IN  [t \in 1..Len(frame) |->
            [Close |-> frame[t].Close, FastMA |-> frame[t].FastMA,
             SlowMA |-> frame[t].SlowMA, Signal |-> Signal(frame[t]),
             Position |-> Position(frame, t),
             MarketReturn |-> market[t],
             StrategyReturn |-> strategy[t],
             CumulativeMarket |-> CumProd(market, t),
             CumulativeStrategy |-> CumProd(strategy, t)]]

\* series.cummax() at row t.
RECURSIVE CumMax(_, _)
CumMax(series, t) ==
    IF t = 1 THEN series[1]
    ELSE IF RatLess(CumMax(series, t - 1), series[t]) THEN series[t]
    ELSE CumMax(series, t - 1)

\* A variant of the drawdown measured from the first value of the series
\* instead of from its running maximum.
max_drawdownFromStart(series) ==
    IF series = <<>> THEN Zero
    ELSE LET drawdown == [t \in 1..Len(series) |->
                              RatSub(RatDiv(series[t], series[1]), Num(1))]
         IN  CHOOSE x \in { drawdown[t] : t \in 1..Len(series) } :
                 \A t \in 1..Len(series) : ~RatLess(drawdown[t], x)

\* _max_drawdown: the least value of series / series.cummax() - 1, or 0 for
\* an empty series.
max_drawdown(series) ==
    IF series = <<>> THEN Zero
    ELSE LET drawdown == [t \in 1..Len(series) |->
                              RatSub(RatDiv(series[t], CumMax(series, t)), Num(1))]
         IN  CHOOSE x \in { drawdown[t] : t \in 1..Len(series) } :
                 \A t \in 1..Len(series) : ~RatLess(drawdown[t], x)

\* A variant of the trade count that counts the entries only.
RECURSIVE total_tradesEntriesOnly(_)
total_tradesEntriesOnly(position) ==
    IF Len(position) < 2 THEN 0
    ELSE (IF position[2] > position[1] THEN 1 ELSE 0)
         + total_tradesEntriesOnly(Tail(position))

\* frame["Position"].diff().abs().sum(): the first difference is NaN and is
\* skipped by the sum.
RECURSIVE total_trades(_)
total_trades(position) ==
    IF Len(position) < 2 THEN 0
    ELSE Abs(position[2] - position[1]) + total_trades(Tail(position))

\* The statistics dict (win_rate and sharpe_ratio, which needs a square
\* root, are not modelled); curve is the frame with all its columns.
Statistics(curve) ==
    LET n == Len(curve)
        strategy == [t \in 1..n |-> curve[t].CumulativeStrategy]
    IN  [total_trades |-> total_trades([t \in 1..n |-> curve[t].Position]),
         strategy_return_pct |->
             RatMul(RatSub(curve[n].CumulativeStrategy, Num(1)), Num(100)),
         market_return_pct |->
             RatMul(RatSub(curve[n].CumulativeMarket, Num(1)), Num(100)),
         max_drawdown_pct |-> RatMul(max_drawdown(strategy), Num(100))]

\* ma_crossover_backtest with a bug: the windows are not compared.
ma_crossover_backtestUnchecked(data, fast_window, slow_window) ==
    LET call == [op |-> "ma_crossover_backtest", close |-> data.values,
                 args |-> <<data.column, fast_window, slow_window>>]
        frame == MovingAverages(data.values, fast_window, slow_window)
    IN  IF data.column # "Close"
        THEN [op |-> call.op, out |-> ErrNoClose, close |-> call.close,
              args |-> call.args, sma_calls |-> 0, frame |-> <<>>,
              statistics |-> NoStatistics]
        ELSE IF frame = <<>>
        THEN [op |-> call.op, out |-> ErrNotEnough, close |-> call.close,
              args |-> call.args, sma_calls |-> 2, frame |-> <<>>,
              statistics |-> NoStatistics]
        ELSE [op |-> call.op, out |-> "ok", close |-> call.close,
              args |-> call.args, sma_calls |-> 2, frame |-> EquityCurve(frame),
              statistics |-> Statistics(EquityCurve(frame))]

\* The outcome of ma_crossover_backtest: the exception raised or "ok", the
\* number of moving averages computed on the way, and the frame returned.
ma_crossover_backtest(data, fast_window, slow_window) ==
    LET call == [op |-> "ma_crossover_backtest", close |-> data.values,
                 args |-> <<data.column, fast_window, slow_window>>]
        frame == MovingAverages(data.values, fast_window, slow_window)
    IN  IF data.column # "Close"
        THEN [op |-> call.op, out |-> ErrNoClose, close |-> call.close,
              args |-> call.args, sma_calls |-> 0, frame |-> <<>>,
              statistics |-> NoStatistics]
        ELSE IF fast_window >= slow_window
        THEN [op |-> call.op, out |-> ErrWindows, close |-> call.close,
              args |-> call.args, sma_calls |-> 0, frame |-> <<>>,
              statistics |-> NoStatistics]
        ELSE IF frame = <<>>
        THEN [op |-> call.op, out |-> ErrNotEnough, close |-> call.close,
              args |-> call.args, sma_calls |-> 2, frame |-> <<>>,
              statistics |-> NoStatistics]
        ELSE [op |-> call.op, out |-> "ok", close |-> call.close,
              args |-> call.args, sma_calls |-> 2, frame |-> EquityCurve(frame),
              statistics |-> Statistics(EquityCurve(frame))]

-----------------------------------------------------------------------------
(* The price series grows bar by bar; the backtest and the RSI are run on  *)
(* it with windows chosen by the caller.                                   *)

Columns == {"Close", "Adj Close"}

InitSeries ==
    /\ ledger = <<>>
    /\ ret = NoCall
    /\ last_summary = NoSummaryYet
    /\ pending = NoPending
    /\ FoldIdle
    /\ price_data \in { [column |-> c, values |-> <<>>] : c \in Columns }
    /\ result = NoResult

AppendBar(c) ==
    /\ Len(price_data.values) < MaxBars
    /\ price_data' = [price_data EXCEPT !.values = Append(@, c)]
    /\ UNCHANGED <<result, ledgerVars, foldVars>>

RunBacktest(fast_window, slow_window) ==
    /\ result' = ma_crossover_backtest(price_data, fast_window, slow_window)
    /\ UNCHANGED <<price_data, ledgerVars, foldVars>>

RunRsi(period) ==
    /\ price_data.column = "Close"
    /\ result' = [op |-> "calculate_rsi", out |-> "ok", close |-> price_data.values,
                  args |-> <<period>>, sma_calls |-> 0,
                  frame |-> calculate_rsi(price_data.values, period),
                  statistics |-> NoStatistics]
    /\ UNCHANGED <<price_data, ledgerVars, foldVars>>

NextBacktest ==
    \/ \E c \in 1..MaxClose : AppendBar(c)
    \/ \E fast_window, slow_window \in 1..MaxWindow :
          RunBacktest(fast_window, slow_window)

SpecBacktest == InitSeries /\ [][NextBacktest]_vars

NextRsi ==
    \/ \E c \in 1..MaxClose : AppendBar(c)
    \/ \E period \in 1..MaxPeriod : RunRsi(period)

SpecRsi == InitSeries /\ [][NextRsi]_vars

-----------------------------------------------------------------------------
(* Claims about the backtest (SpecBacktest) and the RSI (SpecRsi).         *)

Ran == result.op = "ma_crossover_backtest"
FastWindow == result.args[2]
SlowWindow == result.args[3]

\* C7 as claimed: with fast_window >= slow_window the call fails with the
\* window error for every input whatsoever.
C7_WindowErrorForAnyData ==
    (Ran /\ FastWindow >= SlowWindow) => result.out = ErrWindows

\* C7 as amended: with fast_window >= slow_window and a Close column in the
\* data the call fails with the window error, whatever the series (also one
\* with too few bars), having computed no moving average and no frame.
C7_WindowErrorGivenClose ==
    (Ran /\ FastWindow >= SlowWindow /\ result.args[1] = "Close")
        => /\ result.out = ErrWindows
           /\ result.sma_calls = 0
           /\ result.frame = <<>>

\* fast_window >= slow_window on a series too short for either window.
C7_Witness ==
    /\ Ran /\ FastWindow > SlowWindow /\ result.args[1] = "Close"
    /\ Len(result.close) < SlowWindow
    /\ result.out = ErrWindows

\* C8: with fast_window < slow_window, a series with fewer than slow_window
\* bars (no row has both averages) fails with the not-enough-data error and
\* returns no frame; a successful run returns at least one row and every
\* row has both averages defined.
C8_InsufficientData ==
    (Ran /\ FastWindow < SlowWindow /\ result.args[1] = "Close")
        => /\ Len(result.close) < SlowWindow
                => (result.out = ErrNotEnough /\ result.frame = <<>>)
           /\ result.out = "ok"
                => /\ Len(result.frame) >= 1
                   /\ Len(result.frame) = Len(result.close) - SlowWindow + 1
                   /\ \A t \in 1..Len(result.frame) :
                         /\ IsNum(result.frame[t].FastMA)
                         /\ IsNum(result.frame[t].SlowMA)
           /\ result.out \in {"ok", ErrNotEnough}

\* A run failed for lack of bars although the fast average was defined.
C8_Witness ==
    /\ Ran /\ result.out = ErrNotEnough
    /\ Len(result.close) >= FastWindow

\* C9: in a successful backtest Position is 0 at the first row and equals
\* the previous row's Signal afterwards, Signal is 1 exactly when
\* FastMA > SlowMA, and StrategyReturn = Position x MarketReturn.
C9_PositionLagsSignal ==
    (Ran /\ result.out = "ok") =>
        \A t \in 1..Len(result.frame) :
            LET f == result.frame
            IN  /\ f[t].Signal = 1 <=> RatLess(f[t].SlowMA, f[t].FastMA)
                /\ f[t].Signal \in {0, 1}
                /\ t = 1 => f[t].Position = 0
                /\ t > 1 => f[t].Position = f[t - 1].Signal
                /\ f[t].StrategyReturn = RatMul(Num(f[t].Position), f[t].MarketReturn)

\* A run in which the signal switches on at the last row while the position
\* there is still flat, after a row where the two averages tie.
C9_Witness ==
    /\ Ran /\ result.out = "ok" /\ Len(result.frame) >= 3
    /\ LET f == result.frame
           n == Len(result.frame)
       IN  /\ f[n].Signal = 1 /\ f[n].Position = 0
           /\ \E t \in 1..n : f[t].FastMA = f[t].SlowMA
           /\ \E t \in 1..n : f[t].Position = 1 /\ f[t].MarketReturn # Zero

\* C10: calculate_rsi gives 100, not NaN, at every bar where the smoothed
\* average loss is 0 (stated where the smoothed average gain is positive,
\* as after the first bar of a strictly increasing series).
C10_RsiSaturates ==
    result.op = "calculate_rsi" =>
        \A t \in 1..Len(result.frame) :
            (result.frame[t].avg_loss = Zero /\ RatLess(Zero, result.frame[t].avg_gain))
                => result.frame[t].rsi = Num(100)

\* C13: for every successful backtest on a series of positive close prices,
\* max_drawdown_pct <= 0, and max_drawdown_pct = 0 exactly when the
\* Cumulative Strategy column never decreases from one retained row to the
\* next.
C13_DrawdownNeverPositive ==
    (Ran /\ result.out = "ok") =>
        LET f == result.frame
            dd == result.statistics.max_drawdown_pct
        IN  /\ IsNum(dd)
            /\ ~RatLess(Zero, dd)
            /\ (dd = Zero) <=>
                  \A t \in 2..Len(f) :
                      ~RatLess(f[t].CumulativeStrategy, f[t - 1].CumulativeStrategy)

\* A run whose equity first rose above 1 and then fell, ending below its peak
\* but not below its start.
C13_Witness ==
    /\ Ran /\ result.out = "ok"
    /\ RatLess(result.statistics.max_drawdown_pct, Zero)
    /\ LET f == result.frame
       IN  /\ \E t \in 1..Len(f) :
                 RatLess(f[Len(f)].CumulativeStrategy, f[t].CumulativeStrategy)
           /\ ~RatLess(f[Len(f)].CumulativeStrategy, Num(1))

\* The rows at which the position goes from a to b.
Switches(f, a, b) ==
    { t \in 2..Len(f) : f[t - 1].Position = a /\ f[t].Position = b }

\* C15: in every successful backtest total_trades is the sum of
\* |Position[t] - Position[t-1]| over consecutive retained rows, each entry
\* and each exit counting 1; Position starts at 0 and total_trades is even
\* exactly when the final Position is 0.
C15_TradesCountEntriesAndExits ==
    (Ran /\ result.out = "ok") =>
        LET f == result.frame
            n == result.statistics.total_trades
        IN  /\ n = Cardinality(Switches(f, 0, 1)) + Cardinality(Switches(f, 1, 0))
            /\ f[1].Position = 0
            /\ \A t \in 1..Len(f) : f[t].Position \in {0, 1}
            /\ (n % 2 = 0) <=> (f[Len(f)].Position = 0)

\* A run with one full round trip: in, then out, flat at the end.
C15_Witness ==
    /\ Ran /\ result.out = "ok"
    /\ result.statistics.total_trades = 2
    /\ result.frame[Len(result.frame)].Position = 0
    /\ Switches(result.frame, 1, 0) # {}

====
